---- MODULE Spec2Model ----
(***************************************************************************)
(* A model of the exploratory-data-analysis strategies of analyze_src:     *)
(* the inspection strategies and DataInspector, the univariate strategies  *)
(* and UnivariateAnalyzer, the missing-value and outlier templates, and    *)
(* ColumnTypeAnalyzer.                                                     *)
(*                                                                         *)
(* A table (pandas DataFrame) is a record                                  *)
(*   [columns |-> sequence of column names,                                *)
(*    dtypes  |-> column name -> declared type,                            *)
(*    data    |-> column name -> sequence of cells]                        *)
(* and a cell is [null |-> BOOLEAN, v |-> Int]; row labels are 1..R.       *)
(* Floating-point results are kept as exact scaled integers or fractions.  *)
(***************************************************************************)
EXTENDS Integers, Sequences, FiniteSets, TLC

VARIABLES
    df,         \* the caller's table, passed to every call
    inspector,  \* DataInspector._strategy
    analyzer,   \* UnivariateAnalyzer._strategy
    passed,     \* per context, the strategy its constructor or its last
                \* set_strategy was given (history)
    out,        \* what the last call printed, drew, showed and returned
    prev        \* out of the call before the last one (history)

vars == <<df, inspector, analyzer, passed, out, prev>>

-----------------------------------------------------------------------------
(* Bounds of the model *)

MaxRows == 3
MaxIQRRows == 5
MaxZRows == 11
MaxPctRows == 10
MaxCols == 3

-----------------------------------------------------------------------------
(* Cells, columns and tables *)

NaN == [null |-> TRUE, v |-> 0]

Num(x) == [null |-> FALSE, v |-> x]

Cells(values) == {NaN} \cup {Num(x) : x \in values}

ColumnsOver(cells, lo, hi) == UNION {[1..n -> cells] : n \in lo..hi}

Table1(name, dtype, col) ==
    [columns |-> <<name>>,
     dtypes  |-> [c \in {name} |-> dtype],
     data    |-> [c \in {name} |-> col]]

Table2(n1, t1, c1, n2, t2, c2) ==
    [columns |-> <<n1, n2>>,
     dtypes  |-> [c \in {n1, n2} |-> IF c = n1 THEN t1 ELSE t2],
     data    |-> [c \in {n1, n2} |-> IF c = n1 THEN c1 ELSE c2]]

Range(s) == {s[i] : i \in DOMAIN s}

ColumnSet(d) == Range(d.columns)

\* len(df): the number of rows
NumRows(d) == IF Len(d.columns) = 0 THEN 0 ELSE Len(d.data[d.columns[1]])

\* df.shape[1]
NumCols(d) == Len(d.columns)

\* df[col].isnull().sum()
NullCount(col) == Cardinality({i \in DOMAIN col : col[i].null})

\* df[col].dropna(), values only
NonNull(col) == SelectSeq(col, LAMBDA c : ~c.null)

Values(col) == [i \in DOMAIN col |-> col[i].v]

RECURSIVE SumSeq(_)
SumSeq(s) == IF Len(s) = 0 THEN 0 ELSE s[1] + SumSeq(Tail(s))

Sorted(s) == SortSeq(s, LAMBDA x, y : x < y)

\* The lists of distinct names drawn from a set of names
RECURSIVE ListsOver(_)
ListsOver(S) ==
    {<<>>} \cup UNION {{<<x>> \o l : l \in ListsOver(S \ {x})} : x \in S}

\* A strategy object: its class and, for DataRandomRowsStrategy, self.n
Strategy(cls, n) == [cls |-> cls, n |-> n]

NoStrategy == Strategy("none", 0)

\* The value of a call before it has printed, drawn or returned anything
Quiet(op, args) ==
    [op |-> op, args |-> args, receiver |-> NoStrategy,
     calls |-> <<>>, printed |-> <<>>,
     figures |-> <<>>, shown |-> 0, result |-> "None", selected |-> <<>>,
     returned |-> <<>>]

\* A method of a strategy is entered
Enter(o, method) == [o EXCEPT !.calls = Append(@, method)]

\* print(...): one more item on the console
Print1(o, item) == [o EXCEPT !.printed = Append(@, item)]

Raise(o, exc) == [o EXCEPT !.result = exc]

Raised(o) == o.result # "None"

-----------------------------------------------------------------------------
(* Outlier strategies *)

IQRFactorTimes2 == 3

\* Series.quantile(quarters/4): nulls skipped, linear interpolation between
\* the two nearest order statistics; the result is kept times 4, NaN for a
\* column with no value
QuantileTimes4(col, quarters) ==
    LET s == Sorted(Values(NonNull(col)))
        n == Len(s)
        h == (n - 1) * quarters
        lo == h \div 4 + 1
        frac == h % 4
    IN  IF n = 0 THEN [nan |-> TRUE, x4 |-> 0]
        ELSE IF frac = 0 THEN [nan |-> FALSE, x4 |-> 4 * s[lo]]
        ELSE [nan |-> FALSE, x4 |-> 4 * s[lo] + frac * (s[lo + 1] - s[lo])]

\* Q1, Q3, IQR, lower_bound and upper_bound of one column; bounds times 8
IQRBounds(col) ==
    LET Q1 == QuantileTimes4(col, 1)
        Q3 == QuantileTimes4(col, 3)
        IQR4 == Q3.x4 - Q1.x4
    IN  [nan |-> Q1.nan \/ Q3.nan,
         Q1x4 |-> Q1.x4, Q3x4 |-> Q3.x4,
         lower8 |-> 2 * Q1.x4 - IQRFactorTimes2 * IQR4,
         upper8 |-> 2 * Q3.x4 + IQRFactorTimes2 * IQR4]

\* The mutant: values on a fence are flagged too
IQROutlierRows_inclusive(col) ==
    LET b == IQRBounds(col)
    IN  {i \in DOMAIN col :
            /\ ~col[i].null
            /\ ~b.nan
            /\ (8 * col[i].v <= b.lower8 \/ 8 * col[i].v >= b.upper8)}

\* (df[col] < lower_bound) | (df[col] > upper_bound): the rows of the mask;
\* a comparison with NaN is False
IQROutlierRows(col) ==
    LET b == IQRBounds(col)
    IN  {i \in DOMAIN col :
            /\ ~col[i].null
            /\ ~b.nan
            /\ (8 * col[i].v < b.lower8 \/ 8 * col[i].v > b.upper8)}

\* The declared types whose columns hold numbers
IsNumericType(t) == t \in {"int64", "float64", "int32", "float32"}

\* f"{col}: Outerliers.shape[0] Outliers": the text between the braces of
\* {col} is the only replacement field
IQRLine(col, outliers) ==
    <<col, ": ", "Outerliers.shape[0]", " Outliers">>

\* The loop of IQROutlierAnalysis.identify_outliers over numerical_columns
RECURSIVE IQRLoop(_, _, _)
IQRLoop(d, cols, o) ==
    IF Len(cols) = 0 THEN o
    ELSE LET col == cols[1] IN
         IF col \notin ColumnSet(d) THEN Raise(o, "KeyError")
         ELSE IF ~IsNumericType(d.dtypes[col]) THEN Raise(o, "TypeError")
         ELSE LET outliers == IQROutlierRows(d.data[col])
                  o1 == [o EXCEPT !.selected =
                            Append(@, [col |-> col, rows |-> outliers])]
              IN  IQRLoop(d, Tail(cols), Print1(o1, IQRLine(col, outliers)))

IQR_identify_outliers(d, numerical_columns, o) ==
    IQRLoop(d, numerical_columns,
            Print1(Enter(o, "IQROutlierAnalysis.identify_outliers"),
                   <<"Identifying outliers using IQR method:">>))

ZThreshold == 3

\* n times the deviation of each value from the column mean
DevTimesN(vals) ==
    LET n == Len(vals)
        S == SumSeq(vals)
    IN  [i \in DOMAIN vals |-> n * vals[i] - S]

\* The mutant: the comparison without abs()
ZScoreOutlierRows_signed(vals) ==
    LET n == Len(vals)
        dev == DevTimesN(vals)
        SS == SumSeq([i \in DOMAIN dev |-> dev[i] * dev[i]])
    IN  {i \in DOMAIN vals :
            /\ SS > 0
            /\ dev[i] > 0
            /\ n * dev[i] * dev[i] > ZThreshold * ZThreshold * SS}

\* abs(zscore(x)) > 3 for a column without nulls: z = (v - mean) / std with
\* the population standard deviation std = sqrt(mean((v - mean)^2)).  With
\* dev = n*(v - mean) and SS = sum of dev^2 = n^3 * std^2, |z| > 3 is
\* n * dev^2 > 9 * SS; a constant column has z = NaN and selects no row.
ZScoreOutlierRows(vals) ==
    LET n == Len(vals)
        dev == DevTimesN(vals)
        SS == SumSeq([i \in DOMAIN dev |-> dev[i] * dev[i]])
    IN  {i \in DOMAIN vals :
            /\ SS > 0
            /\ n * dev[i] * dev[i] > ZThreshold * ZThreshold * SS}

\* f"{col}: {outliers.shape[0]} Outliers"
ZScoreLine(col, count) == <<col, ": ", ToString(count), " Outliers">>

\* The exceptions df[mask] raises for a mask that does not cover the rows of
\* df: a plain array of another length, or a boolean Series whose index
\* lacks some row labels, according to what zscore returned
MaskErrors == {"ValueError", "IndexingError"}

\* The loop of ZScoreOutlierAnalysis.identify_outliers over numerical_columns
RECURSIVE ZScoreLoop(_, _, _, _)
ZScoreLoop(d, cols, maskError, o) ==
    IF Len(cols) = 0 THEN o
    ELSE LET col == cols[1] IN
         IF col \notin ColumnSet(d) THEN Raise(o, "KeyError")
         ELSE IF ~IsNumericType(d.dtypes[col]) THEN Raise(o, "TypeError")
         ELSE IF Len(NonNull(d.data[col])) # NumRows(d) THEN Raise(o, maskError)
         ELSE LET outliers == ZScoreOutlierRows(Values(d.data[col]))
                  o1 == [o EXCEPT !.selected =
                            Append(@, [col |-> col, rows |-> outliers])]
              IN  ZScoreLoop(d, Tail(cols), maskError,
                             Print1(o1, ZScoreLine(col, Cardinality(outliers))))

ZScore_identify_outliers(d, numerical_columns, maskError, o) ==
    ZScoreLoop(d, numerical_columns, maskError,
               Print1(Enter(o, "ZScoreOutlierAnalysis.identify_outliers"),
                      <<"Identifying outliers using Z-Score method:">>))

\* plt.boxplot(df[col]) / sns.boxplot(x=df[col]) and its title
Figure(kind, title, data) == [kind |-> kind, title |-> title, data |-> data]

Draw(o, fig) == [o EXCEPT !.figures = Append(@, fig)]

\* plt.show()
Show(o) == [o EXCEPT !.shown = @ + 1]

\* The loop of IQROutlierAnalysis.visualize_outliers: one chart shown a column
RECURSIVE IQRVisualizeLoop(_, _, _)
IQRVisualizeLoop(d, cols, o) ==
    IF Len(cols) = 0 THEN o
    ELSE LET col == cols[1] IN
         IF col \notin ColumnSet(d) THEN Raise(o, "KeyError")
         ELSE IF ~IsNumericType(d.dtypes[col]) THEN Raise(o, "TypeError")
         ELSE IQRVisualizeLoop(d, Tail(cols),
                  Show(Draw(o, Figure("boxplot", <<col>>, d.data[col]))))

IQR_visualize_outliers(d, numerical_columns, o) ==
    IQRVisualizeLoop(d, numerical_columns,
        Print1(Enter(o, "IQROutlierAnalysis.visualize_outliers"),
               <<"Visualizing outliers using boxplot:">>))

\* The loop of ZScoreOutlierAnalysis.visualize_outliers: one subplot a column
RECURSIVE ZScoreVisualizeLoop(_, _, _)
ZScoreVisualizeLoop(d, cols, o) ==
    IF Len(cols) = 0 THEN o
    ELSE LET col == cols[1] IN
         IF col \notin ColumnSet(d) THEN Raise(o, "KeyError")
         ELSE IF ~IsNumericType(d.dtypes[col]) THEN Raise(o, "TypeError")
         ELSE ZScoreVisualizeLoop(d, Tail(cols),
                  Draw(o, Figure("boxplot", <<"Outliers in ", col>>, d.data[col])))

\* plt.figure(figsize=(12, len(numerical_columns) * 4)) refuses a height of 0
ZScore_visualize_outliers(d, numerical_columns, o) ==
    LET o1 == Print1(Enter(o, "ZScoreOutlierAnalysis.visualize_outliers"),
                     <<"Visualizing outliers using boxplots...">>)
        o2 == ZScoreVisualizeLoop(d, numerical_columns, o1)
    IN  IF Len(numerical_columns) = 0 THEN Raise(o1, "ValueError")
        ELSE IF Raised(o2) THEN o2
        ELSE Show(o2)

\* The mutant: analyze draws before it counts
IQR_analyze_visualizeFirst(d, numerical_columns, o) ==
    LET o1 == IQR_visualize_outliers(d, numerical_columns,
                                     Enter(o, "OutlierAnalysisTemplate.analyze"))
    IN  IF Raised(o1) THEN o1
        ELSE IQR_identify_outliers(d, numerical_columns, o1)

\* OutlierAnalysisTemplate.analyze with the IQR strategy: an exception of
\* identify_outliers leaves analyze before visualize_outliers is called
IQR_analyze(d, numerical_columns, o) ==
    LET o1 == IQR_identify_outliers(d, numerical_columns,
                                    Enter(o, "OutlierAnalysisTemplate.analyze"))
    IN  IF Raised(o1) THEN o1
        ELSE IQR_visualize_outliers(d, numerical_columns, o1)

\* OutlierAnalysisTemplate.analyze with the z-score strategy
ZScore_analyze(d, numerical_columns, maskError, o) ==
    LET o1 == ZScore_identify_outliers(d, numerical_columns, maskError,
                                       Enter(o, "OutlierAnalysisTemplate.analyze"))
    IN  IF Raised(o1) THEN o1
        ELSE ZScore_visualize_outliers(d, numerical_columns, o1)

-----------------------------------------------------------------------------
(* Fractions: the floating-point percentages, kept exact *)

RECURSIVE GCD(_, _)
GCD(a, b) == IF b = 0 THEN a ELSE GCD(b, a % b)

NaNFrac == [nan |-> TRUE, num |-> 0, den |-> 1]

\* num / den in lowest terms; a division of 0 by 0 is NaN
Frac(num, den) ==
    IF den = 0 THEN NaNFrac
    ELSE LET g == GCD(num, den)
         IN  [nan |-> FALSE, num |-> num \div g, den |-> den \div g]

FracTimes(f, k) == IF f.nan THEN NaNFrac ELSE Frac(f.num * k, f.den)

\* f > k; a comparison with NaN is False
FracGreater(f, k) == ~f.nan /\ f.num > k * f.den

\* a < b for sort_values; never called on NaN
FracLess(a, b) == a.num * b.den < b.num * a.den

\* A Series over the columns of a table: the labels in order, each with its
\* value
SeriesOf(d, f(_)) == [i \in DOMAIN d.columns |->
                        [label |-> d.columns[i], value |-> f(d.columns[i])]]

\* series[mask]: the entries that satisfy the mask, in order
Where(series, Test(_)) == SelectSeq(series, LAMBDA e : Test(e.value))

\* The stable insertion of one entry into a series sorted ascending
RECURSIVE InsertAsc(_, _)
InsertAsc(sorted, e) ==
    IF Len(sorted) = 0 THEN <<e>>
    ELSE IF FracLess(e.value, sorted[1].value) THEN <<e>> \o sorted
    ELSE <<sorted[1]>> \o InsertAsc(Tail(sorted), e)

\* Series.sort_values(): ascending, equal values in their first order
RECURSIVE SortAsc(_)
SortAsc(series) ==
    IF Len(series) = 0 THEN <<>>
    ELSE InsertAsc(SortAsc(SubSeq(series, 1, Len(series) - 1)),
                   series[Len(series)])

Reverse(s) == [i \in DOMAIN s |-> s[Len(s) + 1 - i]]

\* Series.sort_values(ascending=False): the reversed series sorted ascending,
\* reversed again; NaN entries last
SortDesc(series) ==
    Reverse(SortAsc(Reverse(SelectSeq(series, LAMBDA e : ~e.value.nan))))
    \o SelectSeq(series, LAMBDA e : e.value.nan)

\* Series.head(n)
Head_n(s, n) == SubSeq(s, 1, IF Len(s) < n THEN Len(s) ELSE n)

-----------------------------------------------------------------------------
(* Missing-value strategies *)

\* The exceptions the plotting library may raise for an empty picture
EmptyPlotOutcomes == {"None", "ValueError", "IndexError"}

\* missing_values = df.isnull().sum(); missing_values[missing_values > 0]
Simple_identify_missing_values(d, o) ==
    LET missing_values ==
            [i \in DOMAIN d.columns |->
                [label |-> d.columns[i],
                 value |-> NullCount(d.data[d.columns[i]])]]
    IN  Print1(Print1(Enter(o, "SimpleMissingValuesAnalysis.identify_missing_values"),
                      <<"Missing Values Count by Column:">>),
               SelectSeq(missing_values, LAMBDA e : e.value > 0))

\* The mutant: sns.heatmap(df), the cells themselves
Simple_visualize_missing_values_cells(d, emptyPlot, o) ==
    LET o1 == Print1(Enter(o, "SimpleMissingValuesAnalysis.visualize_missing_values"),
                     <<"Visualizing Missing Values...">>)
        o2 == Draw(o1, Figure("heatmap", <<"Missing Values Heatmap">>,
                              [columns |-> d.columns, mask |-> d.data]))
    IN  IF (NumRows(d) = 0 \/ NumCols(d) = 0) /\ emptyPlot # "None"
        THEN Raise(o1, emptyPlot)
        ELSE Show(o2)

\* sns.heatmap(df.isnull()): the null mask of the whole table
Simple_visualize_missing_values(d, emptyPlot, o) ==
    LET o1 == Print1(Enter(o, "SimpleMissingValuesAnalysis.visualize_missing_values"),
                     <<"Visualizing Missing Values...">>)
        mask == [c \in ColumnSet(d) |->
                    [i \in DOMAIN d.data[c] |-> d.data[c][i].null]]
        o2 == Draw(o1, Figure("heatmap", <<"Missing Values Heatmap">>,
                              [columns |-> d.columns, mask |-> mask]))
    IN  IF (NumRows(d) = 0 \/ NumCols(d) = 0) /\ emptyPlot # "None"
        THEN Raise(o1, emptyPlot)
        ELSE Show(o2)

Simple_analyze(d, emptyPlot, o) ==
    LET o1 == Simple_identify_missing_values(d,
                  Enter(o, "MissingValuesAnalysisTemplate.analyze"))
    IN  IF Raised(o1) THEN o1
        ELSE Simple_visualize_missing_values(d, emptyPlot, o1)

PercentBase == 100

\* The mutant: the null count over the number of columns
MissingPercentage_overColumns(d) ==
    SeriesOf(d, LAMBDA c :
        FracTimes(Frac(NullCount(d.data[c]), NumCols(d)), PercentBase))

\* (df.isnull().sum() / len(df)) * 100 of MissingvaluePerPercentage
MissingPercentage(d) ==
    SeriesOf(d, LAMBDA c :
        FracTimes(Frac(NullCount(d.data[c]), NumRows(d)), PercentBase))

PerPercentage_identify_missing_values(d, o) ==
    Print1(Print1(Enter(o, "MissingvaluePerPercentage.identify_missing_values"),
                  <<"Missing Values Percentage by Column:">>),
           SortDesc(MissingPercentage(d)))

TopBars == 5

\* The bar chart of the five largest percentages
PerPercentage_visualize_missing_values(d, emptyPlot, o) ==
    LET o1 == Print1(Enter(o, "MissingvaluePerPercentage.visualize_missing_values"),
                     <<"Visualizing Missing Values Percentage...">>)
        missing_percentage == MissingPercentage(d)
        bars == Head_n(SortDesc(missing_percentage), TopBars)
        o2 == Draw(o1, Figure("bar", <<"Missing Values Percentage per Column">>, bars))
    IN  IF Len(bars) = 0 /\ emptyPlot # "None" THEN Raise(o1, emptyPlot)
        ELSE Show(o2)

PerPercentage_analyze(d, emptyPlot, o) ==
    LET o1 == PerPercentage_identify_missing_values(d,
                  Enter(o, "MissingValuesAnalysisTemplate.analyze"))
    IN  IF Raised(o1) THEN o1
        ELSE PerPercentage_visualize_missing_values(d, emptyPlot, o1)

NullThreshold == 70

\* null_percentages = (df.isnull().sum() / len(df)) * 100 of
\* ColumnWithToManyNulls
null_percentages(d) ==
    SeriesOf(d, LAMBDA c :
        FracTimes(Frac(NullCount(d.data[c]), NumRows(d)), PercentBase))

\* The mutant: a column at the threshold is kept too
TooManyNulls_inclusive(d) ==
    Where(null_percentages(d),
          LAMBDA v : FracGreater(v, NullThreshold) \/
                     (~v.nan /\ v.num = NullThreshold * v.den))

\* null_percentages[null_percentages > 70]
TooManyNulls(d) ==
    Where(null_percentages(d), LAMBDA v : FracGreater(v, NullThreshold))

TooManyNulls_identify_missing_values(d, o) ==
    Print1(Print1(Enter(o, "ColumnWithToManyNulls.identify_missing_values"),
                  <<"Columns with More Than 70% Null Values:">>),
           TooManyNulls(d))

\* The mutant: the sort in place goes through to the caller's table, whose
\* columns come out in the sorted order
TooManyNulls_sortInPlace_aliased(d) ==
    LET sorted == SortAsc(null_percentages(d))
    IN  [table |-> [d EXCEPT !.columns =
                        [i \in DOMAIN sorted |-> sorted[i].label]],
         series |-> SortAsc(TooManyNulls(d))]

\* columns_with_many_nulls = null_percentages[null_percentages > 70] is a new
\* Series; sort_values(inplace=True) reorders that Series alone.  The value
\* is the caller's table and the sorted Series after the statement.
TooManyNulls_sortInPlace(d) ==
    [table |-> d, series |-> SortAsc(TooManyNulls(d))]

TooManyNulls_visualize_missing_values(d, emptyPlot, o) ==
    LET o1 == Print1(Enter(o, "ColumnWithToManyNulls.visualize_missing_values"),
                     <<"Visualizing Columns with More Than 70% Null Values...">>)
        columns_with_many_nulls == TooManyNulls_sortInPlace(d).series
        o2 == Draw(o1, Figure("barh", <<"Columns with More Than 70% Null Values">>,
                              columns_with_many_nulls))
    IN  IF Len(columns_with_many_nulls) = 0 /\ emptyPlot # "None"
        THEN Raise(o1, emptyPlot)
        ELSE Show(o2)

TooManyNulls_analyze(d, emptyPlot, o) ==
    LET o1 == TooManyNulls_identify_missing_values(d,
                  Enter(o, "MissingValuesAnalysisTemplate.analyze"))
    IN  IF Raised(o1) THEN o1
        ELSE TooManyNulls_visualize_missing_values(d, emptyPlot, o1)

-----------------------------------------------------------------------------
(* ColumnTypeAnalyzer *)

DTypes == {"int64", "float64", "object", "category",
           "bool", "datetime64[ns]", "int32", "float32"}

\* df.select_dtypes(include=...).columns.tolist(): the columns whose declared
\* type is one of those named, in the table's order
select_dtypes(d, include) ==
    SelectSeq(d.columns, LAMBDA c : d.dtypes[c] \in include)

\* print(x if x else "None") for a list of names
PrintList(o, names) == Print1(o, IF Len(names) > 0 THEN names ELSE <<"None">>)

get_column_types(d, o) ==
    LET numerical_columns == select_dtypes(d, {"int64", "float64"})
        categorical_columns == select_dtypes(d, {"object", "category"})
        o1 == PrintList(Print1(Enter(o, "ColumnTypeAnalyzer.get_column_types"),
                               <<"Numerical Columns:">>), numerical_columns)
        o2 == PrintList(Print1(o1, <<"Categorical Columns:">>), categorical_columns)
    IN  [o2 EXCEPT !.returned = <<numerical_columns, categorical_columns>>]

-----------------------------------------------------------------------------
(* Inspection strategies *)

\* The rows of a table with the given labels, in that order
Rows(d, labels) ==
    [columns |-> d.columns,
     rows |-> [k \in DOMAIN labels |->
                 [label |-> labels[k],
                  cells |-> [c \in ColumnSet(d) |-> d.data[c][labels[k]]]]]]

RowLabels(d) == [i \in 1..NumRows(d) |-> i]

\* df.info() prints the rows, and a column's non-null count and type, and
\* returns None, which print() then writes
DataTypes_inspect(d, o) ==
    LET info == [rows |-> NumRows(d),
                 columns |-> [i \in DOMAIN d.columns |->
                     [label |-> d.columns[i],
                      nonnull |-> Len(NonNull(d.data[d.columns[i]])),
                      dtype |-> d.dtypes[d.columns[i]]]]]
    IN  Print1(Print1(Print1(Enter(o, "DataTypesInspectionStrategy.inspect"),
                             <<"Data Types and Non-null Counts:">>),
                      info),
               <<"None">>)

DataShape_inspect(d, o) ==
    Print1(Print1(Enter(o, "DataShapeStrategy.inspect"), <<"Data Shape:">>),
           [shape |-> <<NumRows(d), NumCols(d)>>])

PreviewRows == 5

\* df.head()
DataHead_inspect(d, o) ==
    Print1(Print1(Enter(o, "DataHeadStrategy.inspect"),
                  <<"First Five Rows of Data:">>),
           Rows(d, Head_n(RowLabels(d), PreviewRows)))

\* df.tail()
DataTail_inspect(d, o) ==
    LET R == NumRows(d)
        first == IF R > PreviewRows THEN R - PreviewRows + 1 ELSE 1
    IN  Print1(Print1(Enter(o, "DataTailStrategy.inspect"),
                      <<"Last Five Rows of Data:">>),
               Rows(d, SubSeq(RowLabels(d), first, R)))

\* The mutant: a sample drawn with replacement
Samples_withReplacement(d, n) == [1..n -> 1..NumRows(d)]

\* The results df.sample(n) can have: n distinct rows in any order
Samples(d, n) ==
    {l \in ListsOver(1..NumRows(d)) : Len(l) = n}

\* The draws of df.sample(n=self.n), which is given no random_state
SampleChoices(d, n) ==
    IF n > NumRows(d) THEN {<<>>} ELSE Samples(d, n)

\* DataRandomRowsStrategy.inspect with the rows the generator drew; a sample
\* larger than the table is refused
DataRandomRows_inspect(d, n, drawn, o) ==
    LET o1 == Print1(Enter(o, "DataRandomRowsStrategy.inspect"),
                     <<"Random ", ToString(n), " Rows from Dataset:">>)
    IN  IF n > NumRows(d) THEN Raise(o1, "ValueError")
        ELSE Print1(o1, Rows(d, drawn))

\* df.duplicated(): the rows equal to an earlier row
DuplicatedLabels(d) ==
    SelectSeq(RowLabels(d), LAMBDA i :
        \E j \in 1..(i - 1) :
            \A c \in ColumnSet(d) : d.data[c][j] = d.data[c][i])

DuplicateValues_inspect(d, o) ==
    LET duplicates == Rows(d, DuplicatedLabels(d))
        o1 == Print1(Print1(Enter(o, "DuplicateValuesStrategy.inspect"),
                            <<"Duplicate Values:">>),
                     duplicates)
        o2 == Print1(o1, <<"Number of Duplicate Rows: ",
                           ToString(Len(duplicates.rows))>>)
    IN  IF Len(duplicates.rows) > 0
        THEN Print1(Print1(o2, <<"Sample Duplicate Rows:">>),
                    Rows(d, Head_n(DuplicatedLabels(d), PreviewRows)))
        ELSE o2

\* df.nunique() of one column: the distinct non-null values
NUnique(col) == Cardinality(Range(NonNull(col)))

\* The mutant: the overview indexed by the rows of the table
Overview_byRow(d) ==
    [i \in 1..NumRows(d) |->
        [name |-> "", dtype |-> "", missing |-> NaNFrac, unique |-> 0]]

\* The overview frame of ColumnOverviewStrategy: df.columns beside three
\* Series indexed by the column names, so one row a column
Overview(d) ==
    [i \in DOMAIN d.columns |->
        LET c == d.columns[i] IN
        [name |-> c,
         dtype |-> d.dtypes[c],
         missing |-> FracTimes(Frac(NullCount(d.data[c]), NumRows(d)), PercentBase),
         unique |-> NUnique(d.data[c])]]

ColumnOverview_inspect(d, o) ==
    LET overview == Overview(d)
    IN  Print1(Print1(Enter(o, "ColumnOverviewStrategy.inspect"),
                      <<"Column Overview:">>),
               overview)

\* n^2 (n - 1) times the sample variance, as a fraction: Series.std() squared
SampleVariance(vals) ==
    LET n == Len(vals)
        dev == DevTimesN(vals)
        SS == SumSeq([i \in DOMAIN dev |-> dev[i] * dev[i]])
    IN  IF n < 2 THEN NaNFrac ELSE Frac(SS, n * n * (n - 1))

\* Series.describe() of a numeric column: count, mean, std (squared), min,
\* the three quartiles and max
DescribeNumeric(col) ==
    LET vals == Values(NonNull(col))
    IN  [count |-> Len(vals),
         mean |-> Frac(SumSeq(vals), Len(vals)),
         variance |-> SampleVariance(vals),
         quartiles |-> [q \in 0..4 |-> QuantileTimes4(col, q)]]

\* How often a value occurs among the non-null cells
Freq(col, x) == Cardinality({i \in DOMAIN col : ~col[i].null /\ col[i].v = x})

\* The first position of the most frequent value: value_counts().index[0]
TopIndex(col) ==
    CHOOSE i \in DOMAIN col :
        /\ ~col[i].null
        /\ \A k \in 1..(i - 1) : col[k] # col[i]
        /\ \A j \in DOMAIN col : ~col[j].null =>
              \/ Freq(col, col[j].v) < Freq(col, col[i].v)
              \/ (Freq(col, col[j].v) = Freq(col, col[i].v) /\ i <= j)

\* Series.describe() of an object column: count, unique, top and freq
DescribeObject(col) ==
    LET n == Len(NonNull(col))
    IN  [count |-> n,
         unique |-> NUnique(col),
         top |-> IF n = 0 THEN NaN ELSE col[TopIndex(col)],
         freq |-> IF n = 0 THEN 0 ELSE Freq(col, col[TopIndex(col)].v)]

DescribeColumns(d, cols, D(_)) ==
    [i \in DOMAIN cols |-> [label |-> cols[i], stats |-> D(d.data[cols[i]])]]

\* df.describe(): the numeric columns, or every column when none is numeric;
\* df.describe(include=["O"]): the object columns.  A table without columns,
\* or without an object column, is refused.
SummaryStatistics_inspect(d, o) ==
    LET numeric == SelectSeq(d.columns, LAMBDA c : IsNumericType(d.dtypes[c]))
        objects == select_dtypes(d, {"object"})
        o1 == Print1(Enter(o, "SummaryStatisticsInspectionStrategy.inspect"),
                     <<"Summary Statistics (Numerical Features):">>)
        o2 == IF Len(numeric) > 0
              THEN Print1(o1, DescribeColumns(d, numeric, DescribeNumeric))
              ELSE Print1(o1, DescribeColumns(d, d.columns, DescribeObject))
        o3 == Print1(o2, <<"Summary Statistics (Categorical Features):">>)
    IN  IF NumCols(d) = 0 THEN Raise(o1, "ValueError")
        ELSE IF Len(objects) = 0 THEN Raise(o3, "ValueError")
        ELSE Print1(o3, DescribeColumns(d, objects, DescribeObject))

-----------------------------------------------------------------------------
(* Univariate strategies *)

NumericalUnivariate_analyze(d, feature, o) ==
    LET o1 == Enter(o, "NumericalUnivariateAnalysis.analyze")
    IN  IF feature \notin ColumnSet(d) THEN Raise(o1, "KeyError")
        ELSE Show(Draw(o1, Figure("histogram+kde",
                                  <<"Distribution of ", feature>>,
                                  d.data[feature])))

\* sns.countplot(x=feature, data=df): a name df lacks is refused
CategoricalUnivariate_analyze(d, feature, o) ==
    LET o1 == Enter(o, "CategoricalUnivariateAnalysis.analyze")
    IN  IF feature \notin ColumnSet(d) THEN Raise(o1, "ValueError")
        ELSE Show(Draw(o1, Figure("countplot",
                                  <<"Distribution of ", feature>>,
                                  d.data[feature])))

\* Series.mode()[0]: the smallest of the most frequent values
Mode(col) ==
    LET vals == Range(Values(NonNull(col)))
    IN  CHOOSE x \in vals :
            \A y \in vals :
                \/ Freq(col, y) < Freq(col, x)
                \/ Freq(col, y) = Freq(col, x) /\ x <= y

\* Series.skew(), given by the count and the second and third central moment
\* sums it is computed from (of n times the deviations); NaN below 3 values
Skew(col) ==
    LET vals == Values(NonNull(col))
        dev == DevTimesN(vals)
    IN  [nan |-> Len(vals) < 3,
         n |-> Len(vals),
         m2 |-> SumSeq([i \in DOMAIN dev |-> dev[i] * dev[i]]),
         m3 |-> SumSeq([i \in DOMAIN dev |-> dev[i] * dev[i] * dev[i]])]

\* Series.kurt(), given by the count and the squared deviations whose sum and
\* whose sum of squares it is computed from; NaN below 4 values
Kurt(col) ==
    LET vals == Values(NonNull(col))
        dev == DevTimesN(vals)
    IN  [nan |-> Len(vals) < 4,
         n |-> Len(vals),
         squares |-> Sorted([i \in DOMAIN dev |-> dev[i] * dev[i]])]

Stat(label, value) == [label |-> label, value |-> value]

\* Lines 109 to 124 of analyze: the histogram and the boxplot are drawn on
\* their axes (plt.title names the third, still empty, axes), then
\* stats.probplot is looked up on the local stats, the Series describe()
\* returned at line 96 (the module does not import scipy.stats), which has
\* no such attribute
SummaryStats_charts(d, feature, o) ==
    LET col == d.data[feature]
        o1 == Draw(o, Figure("histogram+kde", <<>>, col))
        o2 == Draw(o1, Figure("boxplot", <<>>, col))
    IN  Raise(o2, "AttributeError")

SummaryStats_analyze(d, feature, o) ==
    LET o1 == Print1(Enter(o, "SummaryStatsUnivariateAnalysis.analyze"),
                     <<"Summary Statistics for ", feature, ":">>)
        col == d.data[feature]
        vals == Values(NonNull(col))
        o2 == Print1(o1, Stat("Mean", Frac(SumSeq(vals), Len(vals))))
        o3 == Print1(o2, Stat("Median", QuantileTimes4(col, 2)))
        o4 == Print1(o3, Stat("Mode", Mode(col)))
        o5 == Print1(o4, Stat("describe", DescribeNumeric(col)))
        o6 == Print1(o5, Stat("Skewness", Skew(col)))
        o7 == Print1(o6, Stat("Kurtosis", Kurt(col)))
    IN  IF feature \notin ColumnSet(d) THEN Raise(o1, "KeyError")
        ELSE IF ~IsNumericType(d.dtypes[feature]) THEN Raise(o1, "TypeError")
        ELSE IF Len(vals) = 0 THEN Raise(o3, "KeyError")
        ELSE SummaryStats_charts(d, feature, o7)

-----------------------------------------------------------------------------
(* The strategy objects and the two contexts *)

DefaultSample == 5

SampleSizes == {1, 2, DefaultSample}

InspectionStrategies ==
    {Strategy(cls, 0) :
        cls \in {"DataTypesInspectionStrategy", "DataShapeStrategy",
                 "DataHeadStrategy", "DataTailStrategy",
                 "DuplicateValuesStrategy", "ColumnOverviewStrategy",
                 "SummaryStatisticsInspectionStrategy"}}
    \cup {Strategy("DataRandomRowsStrategy", n) : n \in SampleSizes}

UnivariateStrategies ==
    {Strategy(cls, 0) :
        cls \in {"NumericalUnivariateAnalysis", "CategoricalUnivariateAnalysis",
                 "SummaryStatsUnivariateAnalysis"}}

\* self.inspect(df): the method of the class of self
Inspect(self, d, drawn, o) ==
    LET o1 == [o EXCEPT !.receiver = self]
    IN  CASE self.cls = "DataTypesInspectionStrategy" -> DataTypes_inspect(d, o1)
          [] self.cls = "DataShapeStrategy" -> DataShape_inspect(d, o1)
          [] self.cls = "DataHeadStrategy" -> DataHead_inspect(d, o1)
          [] self.cls = "DataTailStrategy" -> DataTail_inspect(d, o1)
          [] self.cls = "DataRandomRowsStrategy" ->
                DataRandomRows_inspect(d, self.n, drawn, o1)
          [] self.cls = "DuplicateValuesStrategy" -> DuplicateValues_inspect(d, o1)
          [] self.cls = "ColumnOverviewStrategy" -> ColumnOverview_inspect(d, o1)
          [] self.cls = "SummaryStatisticsInspectionStrategy" ->
                SummaryStatistics_inspect(d, o1)

\* What the random generator can hand the strategy
Draws(self, d) ==
    IF self.cls = "DataRandomRowsStrategy" THEN SampleChoices(d, self.n)
    ELSE {<<>>}

\* self.analyze(df, feature): the method of the class of self
Analyze(self, d, feature, o) ==
    LET o1 == [o EXCEPT !.receiver = self]
    IN  CASE self.cls = "NumericalUnivariateAnalysis" ->
                NumericalUnivariate_analyze(d, feature, o1)
          [] self.cls = "CategoricalUnivariateAnalysis" ->
                CategoricalUnivariate_analyze(d, feature, o1)
          [] self.cls = "SummaryStatsUnivariateAnalysis" ->
                SummaryStats_analyze(d, feature, o1)

\* The mutant: set_strategy leaves self._strategy as it was
DataInspector_set_strategy_kept(self, strategy) == self

\* DataInspector.set_strategy: the new value of self._strategy
DataInspector_set_strategy(self, strategy) == strategy

\* The mutant: execute_inspection swallows what the strategy raises
DataInspector_execute_inspection_caught(self, d, drawn, o) ==
    [Inspect(self, d, drawn, Enter(o, "DataInspector.execute_inspection"))
        EXCEPT !.result = "None"]

DataInspector_execute_inspection(self, d, drawn, o) ==
    Inspect(self, d, drawn, Enter(o, "DataInspector.execute_inspection"))

\* UnivariateAnalyzer.set_strategy: the new value of self._strategy
UnivariateAnalyzer_set_strategy(self, strategy) == strategy

UnivariateAnalyzer_execute_analysis(self, d, feature, o) ==
    Analyze(self, d, feature, Enter(o, "UnivariateAnalyzer.execute_analysis"))

NoCall == Quiet("none", <<>>)

\* The column lists a caller passes: the table's columns in any order, any
\* part of them, or a name the table does not have
ColumnLists(d) == ListsOver(ColumnSet(d)) \cup {<<"missing">>}

Features(d) == ColumnSet(d) \cup {"missing"}

-----------------------------------------------------------------------------
(* The calls a caller makes *)

SetInspectorStrategy ==
    \E s \in InspectionStrategies :
        /\ inspector' = DataInspector_set_strategy(inspector, s)
        /\ passed' = [passed EXCEPT !.inspector = s]
        /\ UNCHANGED <<df, analyzer, out, prev>>

ExecuteInspection ==
    \E drawn \in Draws(inspector, df) :
        /\ out' = DataInspector_execute_inspection(inspector, df, drawn,
                      Quiet("DataInspector.execute_inspection", <<>>))
        /\ prev' = out
        /\ UNCHANGED <<df, inspector, analyzer, passed>>

SetAnalyzerStrategy ==
    \E s \in UnivariateStrategies :
        /\ analyzer' = UnivariateAnalyzer_set_strategy(analyzer, s)
        /\ passed' = [passed EXCEPT !.analyzer = s]
        /\ UNCHANGED <<df, inspector, out, prev>>

ExecuteAnalysis ==
    \E feature \in Features(df) :
        /\ out' = UnivariateAnalyzer_execute_analysis(analyzer, df, feature,
                      Quiet("UnivariateAnalyzer.execute_analysis", <<feature>>))
        /\ prev' = out
        /\ UNCHANGED <<df, inspector, analyzer, passed>>

\* A call of a strategy without a context
Direct(o) == out' = o /\ UNCHANGED <<df, inspector, analyzer, passed, prev>>

InspectWith(strategies) ==
    \E s \in strategies : \E drawn \in Draws(s, df) :
        Direct(Inspect(s, df, drawn, Quiet("inspect", <<>>)))

InspectDirect == InspectWith(InspectionStrategies)

OverviewInspect == InspectWith({Strategy("ColumnOverviewStrategy", 0)})

AnalyzeDirect ==
    \E s \in UnivariateStrategies, feature \in Features(df) :
        Direct(Analyze(s, df, feature, Quiet("analyze", <<feature>>)))

GetColumnTypes == Direct(get_column_types(df, Quiet("get_column_types", <<>>)))

SimpleIdentify ==
    Direct(Simple_identify_missing_values(df,
               Quiet("identify_missing_values", <<>>)))

SimpleVisualize ==
    \E e \in EmptyPlotOutcomes :
        Direct(Simple_visualize_missing_values(df, e,
                   Quiet("visualize_missing_values", <<>>)))

SimpleAnalyze ==
    \E e \in EmptyPlotOutcomes :
        Direct(Simple_analyze(df, e, Quiet("analyze", <<>>)))

PerPercentageIdentify ==
    Direct(PerPercentage_identify_missing_values(df,
               Quiet("identify_missing_values", <<>>)))

PerPercentageVisualize ==
    \E e \in EmptyPlotOutcomes :
        Direct(PerPercentage_visualize_missing_values(df, e,
                   Quiet("visualize_missing_values", <<>>)))

PerPercentageAnalyze ==
    \E e \in EmptyPlotOutcomes :
        Direct(PerPercentage_analyze(df, e, Quiet("analyze", <<>>)))

TooManyNullsIdentify ==
    Direct(TooManyNulls_identify_missing_values(df,
               Quiet("identify_missing_values", <<>>)))

\* The two calls that reach the sort in place
TooManyNullsVisualize ==
    \E e \in EmptyPlotOutcomes :
        /\ out' = TooManyNulls_visualize_missing_values(df, e,
                      Quiet("visualize_missing_values", <<>>))
        /\ df' = TooManyNulls_sortInPlace(df).table
        /\ UNCHANGED <<inspector, analyzer, passed, prev>>

TooManyNullsAnalyze ==
    \E e \in EmptyPlotOutcomes :
        /\ out' = TooManyNulls_analyze(df, e, Quiet("analyze", <<>>))
        /\ df' = TooManyNulls_sortInPlace(df).table
        /\ UNCHANGED <<inspector, analyzer, passed, prev>>

IQRIdentify ==
    \E cols \in ColumnLists(df) :
        Direct(IQR_identify_outliers(df, cols, Quiet("identify_outliers", cols)))

IQRVisualize ==
    \E cols \in ColumnLists(df) :
        Direct(IQR_visualize_outliers(df, cols, Quiet("visualize_outliers", cols)))

IQRAnalyze ==
    \E cols \in ColumnLists(df) :
        Direct(IQR_analyze(df, cols, Quiet("analyze", cols)))

ZScoreIdentify ==
    \E cols \in ColumnLists(df), maskError \in MaskErrors :
        Direct(ZScore_identify_outliers(df, cols, maskError,
                   Quiet("identify_outliers", cols)))

ZScoreVisualize ==
    \E cols \in ColumnLists(df) :
        Direct(ZScore_visualize_outliers(df, cols, Quiet("visualize_outliers", cols)))

ZScoreAnalyze ==
    \E cols \in ColumnLists(df), maskError \in MaskErrors :
        Direct(ZScore_analyze(df, cols, maskError, Quiet("analyze", cols)))

-----------------------------------------------------------------------------
(* The tables a caller has *)

Example == <<Num(1), Num(2), Num(3), Num(4), Num(100)>>

EmptyTable == [columns |-> <<>>, dtypes |-> <<>>, data |-> <<>>]

NullOrOne == Cells({1})

\* A numeric column of up to MaxRows rows beside an object column that is
\* empty, full, or null where the numeric column is
SmallTables ==
    {EmptyTable}
    \cup UNION {{Table2("a", "float64", c1, "s", "object", c2) :
                    c1 \in [1..n -> NullOrOne],
                    c2 \in {[i \in 1..n |-> NaN], [i \in 1..n |-> Num(1)]}} :
                n \in 0..MaxRows}
    \cup UNION {{Table2("a", "float64", c1, "s", "object", c1) :
                    c1 \in [1..n -> NullOrOne]} :
                n \in 0..MaxRows}

ContextTables ==
    {EmptyTable,
     Table1("a", "float64", <<Num(1), Num(2), Num(4)>>),
     Table1("a", "float64", <<NaN, NaN>>),
     Table2("a", "float64", <<>>, "s", "object", <<>>),
     Table2("a", "float64", <<Num(1), NaN, Num(1)>>,
            "s", "object", <<Num(2), NaN, Num(2)>>)}

IQRValues == {1, 2, 3, 4, 100}

IQRPool ==
    {Example,
     <<Num(1), Num(1), Num(1), Num(1), Num(1)>>,
     <<Num(100), NaN, Num(1), Num(1), Num(1)>>}

IQRTables ==
    {Table1("a", "float64", col) :
        col \in ColumnsOver(Cells(IQRValues), 0, MaxIQRRows)}
    \cup {Table2("a", "float64", c1, "b", "float64", c2) :
            c1 \in IQRPool, c2 \in IQRPool}
    \cup {Table2("a", "float64", c1, "s", "object", c1) : c1 \in IQRPool}

ZValues == {0, 1}

ZPool ==
    {Example,
     <<Num(1), NaN, Num(3), Num(4), Num(100)>>,
     <<NaN, NaN, NaN, NaN, NaN>>}

ZTables ==
    {Table1("a", "float64", col) :
        col \in ColumnsOver({Num(x) : x \in ZValues}, MaxZRows - 1, MaxZRows)}
    \cup {Table1("a", "float64", col) :
            col \in ColumnsOver(Cells(ZValues), 0, MaxRows)}
    \cup {Table2("a", "float64", c1, "b", "float64", c2) :
            c1 \in ZPool, c2 \in ZPool}
    \cup {Table2("a", "float64", c1, "s", "object", c1) : c1 \in ZPool}

ColumnNames == <<"a", "b", "c", "d", "e">>

\* Tables of up to MaxCols columns of one row, of every declared type
TypedTables ==
    UNION {{[columns |-> SubSeq(ColumnNames, 1, k),
             dtypes |-> t,
             data |-> [c \in Range(SubSeq(ColumnNames, 1, k)) |-> <<Num(1)>>]] :
                t \in [Range(SubSeq(ColumnNames, 1, k)) -> DTypes]} :
           k \in 0..MaxCols}

\* One column of up to MaxPctRows rows with any of them null, and the small
\* tables
MissingTables ==
    {Table1("a", "float64", col) : col \in ColumnsOver(NullOrOne, 0, MaxPctRows)}
    \cup SmallTables

\* Six columns, one more than the bar chart of percentages shows, with 0, 1,
\* 2, 3, 4 and again 3 nulls in 4 rows
WideTable ==
    [columns |-> <<"a", "b", "c", "d", "e", "f">>,
     dtypes |-> [c \in {"a", "b", "c", "d", "e", "f"} |-> "float64"],
     data |-> [c \in {"a", "b", "c", "d", "e", "f"} |->
                 CASE c = "a" -> <<Num(1), Num(1), Num(1), Num(1)>>
                   [] c = "b" -> <<NaN, Num(1), Num(1), Num(1)>>
                   [] c = "c" -> <<NaN, NaN, Num(1), Num(1)>>
                   [] c = "d" -> <<NaN, NaN, NaN, Num(1)>>
                   [] c = "e" -> <<NaN, NaN, NaN, NaN>>
                   [] c = "f" -> <<Num(1), NaN, NaN, NaN>>]]

\* One column of up to MaxRows cells that are null, 1 or 2; two columns of
\* up to MaxRows - 1 cells that are null or 1; the empty table, a table of
\* no row and the wide table
RenderTables ==
    {Table1("a", "float64", col) : col \in ColumnsOver(Cells({1, 2}), 0, MaxRows)}
    \cup UNION {{Table2("a", "float64", c1, "b", "float64", c2) :
                    c1 \in [1..n -> NullOrOne], c2 \in [1..n -> NullOrOne]} :
                n \in 0..(MaxRows - 1)}
    \cup {EmptyTable, WideTable}

-----------------------------------------------------------------------------
(* The specifications *)

\* A caller with a table and no context object
InitPure(tables) ==
    /\ df \in tables
    /\ inspector = NoStrategy
    /\ analyzer = NoStrategy
    /\ passed = [inspector |-> NoStrategy, analyzer |-> NoStrategy]
    /\ out = NoCall
    /\ prev = NoCall

\* DataInspector(strategy) and UnivariateAnalyzer(strategy) constructed
Init ==
    /\ df \in ContextTables
    /\ inspector \in InspectionStrategies
    /\ analyzer \in UnivariateStrategies
    /\ passed = [inspector |-> inspector, analyzer |-> analyzer]
    /\ out = NoCall
    /\ prev = NoCall

Next ==
    \/ SetInspectorStrategy
    \/ ExecuteInspection
    \/ SetAnalyzerStrategy
    \/ ExecuteAnalysis

Spec == Init /\ [][Next]_vars

\* The small tables, the tables of the contexts, the example, and a table
\* whose two columns are over the null threshold in descending order
AllTables ==
    SmallTables \cup ContextTables
    \cup {Table1("a", "float64", Example),
          Table2("a", "float64", <<NaN, NaN, NaN, NaN>>,
                 "s", "object", <<NaN, NaN, NaN, Num(1)>>)}

InitAll == InitPure(AllTables)

NextAll ==
    \/ InspectDirect
    \/ AnalyzeDirect
    \/ GetColumnTypes
    \/ SimpleIdentify
    \/ SimpleVisualize
    \/ SimpleAnalyze
    \/ PerPercentageIdentify
    \/ PerPercentageVisualize
    \/ PerPercentageAnalyze
    \/ TooManyNullsIdentify
    \/ TooManyNullsVisualize
    \/ TooManyNullsAnalyze
    \/ IQRIdentify
    \/ IQRVisualize
    \/ IQRAnalyze
    \/ ZScoreIdentify
    \/ ZScoreVisualize
    \/ ZScoreAnalyze

SpecAll == InitAll /\ [][NextAll]_vars

InitIQR == InitPure(IQRTables)

NextIQR == IQRIdentify

SpecIQR == InitIQR /\ [][NextIQR]_vars

InitZScore == InitPure(ZTables)

NextZScore == ZScoreIdentify

SpecZScore == InitZScore /\ [][NextZScore]_vars

InitColumnTypes == InitPure(TypedTables)

NextColumnTypes == GetColumnTypes

SpecColumnTypes == InitColumnTypes /\ [][NextColumnTypes]_vars

InitMissing == InitPure(MissingTables)

NextMissing ==
    \/ SimpleIdentify
    \/ SimpleVisualize
    \/ SimpleAnalyze
    \/ PerPercentageIdentify
    \/ PerPercentageVisualize
    \/ PerPercentageAnalyze
    \/ TooManyNullsIdentify
    \/ TooManyNullsVisualize
    \/ TooManyNullsAnalyze
    \/ OverviewInspect

SpecMissing == InitMissing /\ [][NextMissing]_vars

InitRender == InitPure(RenderTables)

NextRender ==
    \/ SimpleIdentify
    \/ SimpleVisualize
    \/ SimpleAnalyze
    \/ PerPercentageIdentify
    \/ PerPercentageVisualize
    \/ PerPercentageAnalyze
    \/ TooManyNullsIdentify
    \/ TooManyNullsVisualize
    \/ TooManyNullsAnalyze

SpecRender == InitRender /\ [][NextRender]_vars

\* The tables of the contexts and pairs of numeric columns with and without
\* nulls
TemplateTables ==
    ContextTables
    \cup {Table2("a", "float64", c1, "b", "float64", c2) :
            c1 \in IQRPool \cup ZPool, c2 \in IQRPool \cup ZPool}

InitTemplate == InitPure(TemplateTables)

NextTemplate ==
    \/ SimpleAnalyze
    \/ PerPercentageAnalyze
    \/ TooManyNullsAnalyze
    \/ IQRAnalyze
    \/ ZScoreAnalyze

SpecTemplate == InitTemplate /\ [][NextTemplate]_vars

-----------------------------------------------------------------------------
(* The properties *)

\* The k-th smallest of the values, by counting instead of sorting
OrderStat(vals, k) ==
    CHOOSE x \in Range(vals) :
        /\ Cardinality({j \in DOMAIN vals : vals[j] < x}) < k
        /\ Cardinality({j \in DOMAIN vals : vals[j] <= x}) >= k

\* 4 times the quantile at quarters/4 of the non-null values
FenceQuantile4(vals, quarters) ==
    LET h == (Len(vals) - 1) * quarters
        lo == h \div 4 + 1
        r == h % 4
    IN  IF r = 0 THEN 4 * OrderStat(vals, lo)
        ELSE (4 - r) * OrderStat(vals, lo) + r * OrderStat(vals, lo + 1)

\* The rows whose value v has v < Q1 - 1.5*IQR or v > Q3 + 1.5*IQR
OutsideFences(col) ==
    LET vals == Values(NonNull(col))
        Q1 == FenceQuantile4(vals, 1)
        Q3 == FenceQuantile4(vals, 3)
    IN  IF Len(vals) = 0 THEN {}
        ELSE {i \in DOMAIN col :
                /\ ~col[i].null
                /\ \/ 8 * col[i].v < 2 * Q1 - 3 * (Q3 - Q1)
                   \/ 8 * col[i].v > 2 * Q3 + 3 * (Q3 - Q1)}

\* C2: for every column of numerical_columns that IQROutlierAnalysis.
\* identify_outliers works on, the rows it selects are exactly the rows whose
\* value lies strictly outside [Q1 - 1.5*IQR, Q3 + 1.5*IQR]; a null or a
\* value on a fence is not selected, and of [1,2,3,4,100] only the row of
\* 100 is; without an exception every named column is worked on.
C2_IQRSelectsOutsideFences ==
    out.calls = <<"IQROutlierAnalysis.identify_outliers">> =>
        /\ out.result = "None" => Len(out.selected) = Len(out.args)
        /\ \A k \in DOMAIN out.selected :
            LET col == df.data[out.selected[k].col]
                rows == out.selected[k].rows
            IN  /\ out.selected[k].col = out.args[k]
                /\ rows = OutsideFences(col)
                /\ \A i \in rows : ~col[i].null
                /\ col = Example => rows = {5}

C2_Witness ==
    /\ out.calls = <<"IQROutlierAnalysis.identify_outliers">>
    /\ out.args = <<"a">>
    /\ df.data["a"] = Example
    /\ out.selected = <<[col |-> "a", rows |-> {5}]>>

\* C3: the line IQROutlierAnalysis.identify_outliers prints for a column
\* holds the number of outlier rows it computed for that column.
C3_IQRLineHoldsCount ==
    out.calls = <<"IQROutlierAnalysis.identify_outliers">> =>
        \A k \in DOMAIN out.selected :
            out.printed[k + 1][3] = ToString(Cardinality(out.selected[k].rows))

\* The rows with |v - mean| / std > 3, mean and std over the whole column:
\* with S the sum and Q the sum of squares of the n values, the variance is
\* (n*Q - S^2) / n^2 and the rule is (n*v - S)^2 > 9 * (n*Q - S^2)
ZRuleRows(vals) ==
    LET n == Len(vals)
        S == SumSeq(vals)
        Q == SumSeq([i \in DOMAIN vals |-> vals[i] * vals[i]])
    IN  {i \in DOMAIN vals :
            /\ n * Q - S * S > 0
            /\ (n * vals[i] - S) * (n * vals[i] - S) > 9 * (n * Q - S * S)}

\* C4: for every column of numerical_columns without nulls that
\* ZScoreOutlierAnalysis.identify_outliers works on, the count it prints is
\* the number of rows with |v - mean| / std > 3; [1,2,3,4,100] has none.
C4_ZScoreCountsRule ==
    out.calls = <<"ZScoreOutlierAnalysis.identify_outliers">> =>
        /\ (\A k \in DOMAIN out.args :
                /\ out.args[k] \in ColumnSet(df)
                /\ IsNumericType(df.dtypes[out.args[k]])
                /\ NullCount(df.data[out.args[k]]) = 0)
           => out.result = "None" /\ Len(out.printed) = Len(out.args) + 1
        /\ \A k \in 1..(Len(out.printed) - 1) :
            LET col == df.data[out.args[k]]
                count == Cardinality(ZRuleRows(Values(col)))
            IN  /\ NullCount(col) = 0
                /\ out.printed[k + 1] =
                       <<out.args[k], ": ", ToString(count), " Outliers">>
                /\ col = Example => out.printed[k + 1][3] = "0"

C4_Witness ==
    /\ out.calls = <<"ZScoreOutlierAnalysis.identify_outliers">>
    /\ out.args = <<"a">>
    /\ NumRows(df) = 11
    /\ out.printed[2] = <<"a", ": ", "1", " Outliers">>

\* C1: an execution through a context runs the strategy the context was
\* last given (by its constructor or by set_strategy), and that one strategy
\* method alone.
C1_DispatchToLatestStrategy ==
    [][(out' # out \/ prev' # prev) =>
        /\ out'.op = "DataInspector.execute_inspection" =>
              out'.receiver = passed.inspector /\ Len(out'.calls) = 2
        /\ out'.op = "UnivariateAnalyzer.execute_analysis" =>
              out'.receiver = passed.analyzer /\ Len(out'.calls) = 2]_vars

C1_Witness ==
    /\ out.op = "DataInspector.execute_inspection"
    /\ prev.op = "DataInspector.execute_inspection"
    /\ prev.receiver.cls = "DataShapeStrategy"
    /\ out.receiver.cls = "DataHeadStrategy"
    /\ out.calls = <<"DataInspector.execute_inspection", "DataHeadStrategy.inspect">>
    /\ passed.inspector = out.receiver

\* C5: the two lists get_column_types returns are disjoint and together hold
\* every column of the table.
C5_ColumnTypesPartition ==
    out.op = "get_column_types" =>
        /\ Range(out.returned[1]) \cap Range(out.returned[2]) = {}
        /\ Range(out.returned[1]) \cup Range(out.returned[2]) = ColumnSet(df)

\* The percentage reported for a column of a table with rows is 100*k/R for
\* its k nulls among the R rows, between 0 and 100, and 20 for 2 among 10
PercentageRight(label, value) ==
    LET k == NullCount(df.data[label])
        R == NumRows(df)
    IN  R >= 1 =>
            /\ ~value.nan
            /\ value.den >= 1
            /\ value.num * R = 100 * k * value.den
            /\ 0 <= value.num /\ value.num <= 100 * value.den
            /\ (k = 2 /\ R = 10) => value = [nan |-> FALSE, num |-> 20, den |-> 1]

C7_OverviewRowPerColumn ==
    out.calls = <<"ColumnOverviewStrategy.inspect">> =>
        /\ Len(out.printed[2]) = NumCols(df)
        /\ \A i \in DOMAIN out.printed[2] : out.printed[2][i].name = df.columns[i]

C7_Witness ==
    /\ out.calls = <<"ColumnOverviewStrategy.inspect">>
    /\ NumRows(df) = 0
    /\ NumCols(df) = 2
    /\ Len(out.printed[2]) = 2

SameInspectionTwice ==
    /\ out.op = "DataInspector.execute_inspection"
    /\ prev.op = "DataInspector.execute_inspection"
    /\ out.receiver = prev.receiver

\* C8 as stated: two inspect calls of the same strategy on the same table
\* produce the same output, for all eight strategies.
C8_InspectionDeterministic == SameInspectionTwice => out = prev

\* What one call of DataRandomRowsStrategy.inspect prints: self.n distinct
\* rows of the table, or nothing past the header when the table is shorter
RandomRowsOutput(o) ==
    IF o.receiver.n > NumRows(df)
    THEN o.result = "ValueError" /\ Len(o.printed) = 1
    ELSE /\ o.result = "None"
         /\ Len(o.printed[2].rows) = o.receiver.n
         /\ \A i \in DOMAIN o.printed[2].rows :
               /\ o.printed[2].rows[i] \in Range(Rows(df, RowLabels(df)).rows)
               /\ \A j \in DOMAIN o.printed[2].rows :
                     o.printed[2].rows[i].label = o.printed[2].rows[j].label => i = j

\* C8, amended: the seven strategies other than DataRandomRowsStrategy
\* produce the same output twice; two calls of DataRandomRowsStrategy print
\* the same header and each n distinct rows of the table, not necessarily
\* the same rows, or both raise when n exceeds the number of rows.
C8_DeterministicButRandomRows ==
    SameInspectionTwice =>
        IF out.receiver.cls = "DataRandomRowsStrategy"
        THEN /\ out.printed[1] = prev.printed[1]
             /\ RandomRowsOutput(out)
             /\ RandomRowsOutput(prev)
        ELSE out = prev

C8_Witness ==
    /\ SameInspectionTwice
    /\ out.receiver = Strategy("DataRandomRowsStrategy", 2)
    /\ out.result = "None"
    /\ out.printed[2] # prev.printed[2]

\* C9: no call of a strategy, and no call of get_column_types, changes the
\* caller's table, whether it returns or raises.
C9_TableUnchanged == [][df' = df]_vars

\* The sort in place has reordered the two columns over the threshold
C9_Witness ==
    /\ out.calls = <<"ColumnWithToManyNulls.visualize_missing_values">>
    /\ df.columns = <<"a", "s">>
    /\ Len(out.figures) = 1
    /\ Len(out.figures[1].data) = 2
    /\ out.figures[1].data[1].label = "s"
    /\ out.figures[1].data[2].label = "a"

\* C10: for a numeric feature with a non-null value,
\* SummaryStatsUnivariateAnalysis.analyze prints mean, median, mode,
\* skewness and kurtosis, draws its three charts, shows them and returns None.
C10_SummaryStatsCompletes ==
    (/\ out.op = "UnivariateAnalyzer.execute_analysis"
     /\ out.receiver.cls = "SummaryStatsUnivariateAnalysis"
     /\ out.args[1] \in ColumnSet(df)
     /\ IsNumericType(df.dtypes[out.args[1]])
     /\ Len(NonNull(df.data[out.args[1]])) >= 1)
    => /\ Len(out.printed) = 7
       /\ out.printed[2].label = "Mean"
       /\ out.printed[3].label = "Median"
       /\ out.printed[4].label = "Mode"
       /\ out.printed[6].label = "Skewness"
       /\ out.printed[7].label = "Kurtosis"
       /\ [i \in DOMAIN out.figures |-> out.figures[i].kind] =
              <<"histogram+kde", "boxplot", "qqplot">>
       /\ out.shown = 1
       /\ out.result = "None"

-----------------------------------------------------------------------------
(* The missing-value renderings *)

MissingClasses ==
    {"SimpleMissingValuesAnalysis", "MissingvaluePerPercentage",
     "ColumnWithToManyNulls"}

\* The rendering of another table by the same class
VisualizeAgain(cls, d, e) ==
    LET o == Quiet("visualize_missing_values", <<>>)
    IN  CASE cls = "SimpleMissingValuesAnalysis" ->
                Simple_visualize_missing_values(d, e, o)
          [] cls = "MissingvaluePerPercentage" ->
                PerPercentage_visualize_missing_values(d, e, o)
          [] cls = "ColumnWithToManyNulls" ->
                TooManyNulls_visualize_missing_values(d, e, o)

\* d2 is rendered as the table of the last call was
SameRendering(cls, d2) ==
    \E e \in EmptyPlotOutcomes :
        LET o2 == VisualizeAgain(cls, d2, e)
        IN  o2.figures = out.figures /\ o2.shown = out.shown
            /\ o2.result = out.result

\* df.isnull().sum(): the null count of each column, in column order
NullCounts(d) ==
    [i \in DOMAIN d.columns |->
        <<d.columns[i], NullCount(d.data[d.columns[i]])>>]

\* df.isnull(): which cells are null, column by column
NullMask(d) ==
    [i \in DOMAIN d.columns |->
        <<d.columns[i],
          [r \in DOMAIN d.data[d.columns[i]] |-> d.data[d.columns[i]][r].null]>>]

\* The same columns with the same shares of nulls: k1/R1 = k2/R2
SamePercentages(d1, d2) ==
    /\ d1.columns = d2.columns
    /\ (NumRows(d1) = 0) = (NumRows(d2) = 0)
    /\ \A c \in ColumnSet(d1) :
          NullCount(d1.data[c]) * NumRows(d2) = NullCount(d2.data[c]) * NumRows(d1)

Labels(series) == {series[i].label : i \in DOMAIN series}

\* The columns a chart shows
RenderedColumns(fig) ==
    IF fig.kind = "heatmap" THEN Range(fig.data.columns) ELSE Labels(fig.data)

VisualizeDone(cls) == out.calls = <<cls \o ".visualize_missing_values">>

\* analyze has returned: identify printed its Series, visualize drew one chart
AnalyzeDone(cls) ==
    /\ out.calls = <<"MissingValuesAnalysisTemplate.analyze",
                     cls \o ".identify_missing_values",
                     cls \o ".visualize_missing_values">>
    /\ out.result = "None"

\* C11 as stated: for each missing-value strategy, two tables with the same
\* per-column null counts are rendered the same by visualize_missing_values,
\* and the columns rendered are the columns identify_missing_values reported.
C11_RenderingFromCounts ==
    \A cls \in MissingClasses :
        /\ VisualizeDone(cls) =>
              \A d2 \in RenderTables :
                  NullCounts(d2) = NullCounts(df) => SameRendering(cls, d2)
        /\ AnalyzeDone(cls) =>
              RenderedColumns(out.figures[1]) = Labels(out.printed[2])

\* C11, amended: two tables with the same null mask (the same columns, the
\* same cells null) are rendered the same by each strategy; for
\* MissingvaluePerPercentage and ColumnWithToManyNulls the same columns with
\* the same null percentages are enough.  SimpleMissingValuesAnalysis renders
\* every column and reports those with a null; MissingvaluePerPercentage
\* renders the first five, at most, of the columns it reports in the order
\* reported; ColumnWithToManyNulls renders exactly the columns it reports.
C11_RenderingFromMask ==
    /\ \A cls \in MissingClasses :
          VisualizeDone(cls) =>
              \A d2 \in RenderTables :
                  NullMask(d2) = NullMask(df) => SameRendering(cls, d2)
    /\ \A cls \in MissingClasses \ {"SimpleMissingValuesAnalysis"} :
          VisualizeDone(cls) =>
              \A d2 \in RenderTables :
                  SamePercentages(d2, df) => SameRendering(cls, d2)
    /\ AnalyzeDone("SimpleMissingValuesAnalysis") =>
          /\ RenderedColumns(out.figures[1]) = ColumnSet(df)
          /\ Labels(out.printed[2]) =
                {c \in ColumnSet(df) : NullCount(df.data[c]) > 0}
    /\ AnalyzeDone("MissingvaluePerPercentage") =>
          /\ Labels(out.printed[2]) = ColumnSet(df)
          /\ out.figures[1].data =
                SubSeq(out.printed[2], 1,
                       IF NumCols(df) < TopBars THEN NumCols(df) ELSE TopBars)
    /\ AnalyzeDone("ColumnWithToManyNulls") =>
          RenderedColumns(out.figures[1]) = Labels(out.printed[2])

\* A heatmap was shown of a table that shares its null mask with another
\* table of other values
C11_Witness ==
    /\ VisualizeDone("SimpleMissingValuesAnalysis")
    /\ out.shown = 1
    /\ \E d2 \in RenderTables :
          /\ d2 # df
          /\ NullMask(d2) = NullMask(df)
          /\ NullCount(df.data["a"]) = 1

-----------------------------------------------------------------------------
(* The two templates *)

OutlierClasses == {"IQROutlierAnalysis", "ZScoreOutlierAnalysis"}

\* A template, a class of it and the names of the two steps of the class
TemplateSteps ==
    {[template |-> "MissingValuesAnalysisTemplate.analyze",
      identify |-> c \o ".identify_missing_values",
      visualize |-> c \o ".visualize_missing_values",
      outlier |-> FALSE] : c \in MissingClasses}
    \cup {[template |-> "OutlierAnalysisTemplate.analyze",
            identify |-> c \o ".identify_outliers",
            visualize |-> c \o ".visualize_outliers",
            outlier |-> TRUE] : c \in OutlierClasses}

\* The first line each visualize step prints
VisualizeHeaders ==
    {<<"Visualizing Missing Values...">>,
     <<"Visualizing Missing Values Percentage...">>,
     <<"Visualizing Columns with More Than 70% Null Values...">>,
     <<"Visualizing outliers using boxplot:">>,
     <<"Visualizing outliers using boxplots...">>}

TemplateAnalyzeDone ==
    /\ out.op = "analyze"
    /\ Len(out.calls) > 0
    /\ out.calls[1] \in {t.template : t \in TemplateSteps}

\* The number of items the identify step prints when it returns: its
\* header, then one line a column named, or the one Series of the table
IdentifyItems(t) == IF t.outlier THEN 1 + Len(out.args) ELSE 2

\* The places of the lines of text among them (the Series is no text)
TextItems(t) == IF t.outlier THEN DOMAIN out.printed ELSE {1}

\* C12: one analyze call of either template calls identify once and then
\* visualize once, in that order and with the table and column list analyze
\* was given; visualize starts after identify has printed everything, and
\* is not called when identify raises.
C12_IdentifyThenVisualize ==
    TemplateAnalyzeDone =>
        \E t \in TemplateSteps :
            /\ out.calls[1] = t.template
            /\ \/ /\ out.calls = <<t.template, t.identify, t.visualize>>
                  /\ Len(out.printed) = IdentifyItems(t) + 1
                  /\ out.printed[IdentifyItems(t) + 1] \in VisualizeHeaders
                  /\ \A i \in TextItems(t) \cap 1..IdentifyItems(t) :
                        out.printed[i] \notin VisualizeHeaders
                  /\ t.outlier =>
                        /\ \A i \in DOMAIN out.args :
                              out.printed[i + 1][1] = out.args[i]
                        /\ out.result = "None" =>
                              /\ Len(out.figures) = Len(out.args)
                              /\ \A i \in DOMAIN out.args :
                                    LET title == out.figures[i].title
                                    IN  /\ title[Len(title)] = out.args[i]
                                        /\ out.figures[i].data =
                                              df.data[out.args[i]]
               \/ /\ out.calls = <<t.template, t.identify>>
                  /\ Raised(out)
                  /\ out.figures = <<>>
                  /\ out.shown = 0
                  /\ \A i \in TextItems(t) \cap DOMAIN out.printed :
                        out.printed[i] \notin VisualizeHeaders

\* analyze of the IQR class has counted and then drawn two columns, the
\* second before the first
C12_Witness ==
    /\ out.calls = <<"OutlierAnalysisTemplate.analyze",
                     "IQROutlierAnalysis.identify_outliers",
                     "IQROutlierAnalysis.visualize_outliers">>
    /\ out.args = <<"b", "a">>
    /\ out.shown = 2
    /\ df.data["a"] # df.data["b"]

\* identify raised at the second column and analyze ended there
C12_WitnessRaised ==
    /\ out.calls = <<"OutlierAnalysisTemplate.analyze",
                     "ZScoreOutlierAnalysis.identify_outliers">>
    /\ Len(out.args) = 2
    /\ Len(out.printed) = 2
    /\ Raised(out)

-----------------------------------------------------------------------------
(* The z-score of a column with nulls *)

\* The rows of a column whose value is more than three standard deviations
\* from the mean, mean and deviation taken over the non-null values
ZRuleRowsSkippingNulls(col) ==
    LET vals == Values(NonNull(col))
        n == Len(vals)
        S == SumSeq(vals)
        Q == SumSeq([i \in DOMAIN vals |-> vals[i] * vals[i]])
    IN  {i \in DOMAIN col :
            /\ ~col[i].null
            /\ n * Q - S * S > 0
            /\ (n * col[i].v - S) * (n * col[i].v - S) > 9 * (n * Q - S * S)}

\* C13: when every column named exists, is numeric and has a value,
\* ZScoreOutlierAnalysis.identify_outliers returns and prints for each
\* column, also one with nulls, the number of its non-null rows with
\* |z| > 3, the nulls left out of mean and deviation and never flagged, each
\* flag on the row of its value.
C13_ZScoreSkipsNulls ==
    (/\ out.calls = <<"ZScoreOutlierAnalysis.identify_outliers">>
     /\ \A k \in DOMAIN out.args :
           /\ out.args[k] \in ColumnSet(df)
           /\ IsNumericType(df.dtypes[out.args[k]])
           /\ Len(NonNull(df.data[out.args[k]])) > 0)
    => /\ out.result = "None"
       /\ Len(out.printed) = Len(out.args) + 1
       /\ \A k \in DOMAIN out.args :
             LET rows == ZRuleRowsSkippingNulls(df.data[out.args[k]])
             IN  /\ out.printed[k + 1] =
                       <<out.args[k], ": ", ToString(Cardinality(rows)), " Outliers">>
                 /\ out.selected[k].rows = rows

-----------------------------------------------------------------------------
(* Exceptions through the contexts *)

\* C14: what the active strategy raises reaches the caller of
\* execute_inspection / execute_analysis (a sample larger than the table, a
\* feature the table lacks); the strategy was called once, the context keeps
\* its strategy, and the next execution, after a raise too, runs the
\* strategy the context was last given.
C14_ExceptionReachesCaller ==
    [][(out' # out \/ prev' # prev) =>
        /\ (/\ out'.op = "DataInspector.execute_inspection"
            /\ out'.receiver.cls = "DataRandomRowsStrategy"
            /\ out'.receiver.n > NumRows(df)) => out'.result = "ValueError"
        /\ (/\ out'.op = "UnivariateAnalyzer.execute_analysis"
            /\ out'.args[1] \notin ColumnSet(df)) =>
               out'.result \in {"KeyError", "ValueError"}
        /\ Raised(out') =>
              /\ inspector' = inspector
              /\ analyzer' = analyzer
              /\ out'.calls \in
                    {<<"DataInspector.execute_inspection",
                       out'.receiver.cls \o ".inspect">>,
                     <<"UnivariateAnalyzer.execute_analysis",
                       out'.receiver.cls \o ".analyze">>}
              /\ out'.calls[1] = out'.op
        /\ Raised(out) =>
              /\ out'.op = "DataInspector.execute_inspection" =>
                    out'.receiver = passed.inspector
              /\ out'.op = "UnivariateAnalyzer.execute_analysis" =>
                    out'.receiver = passed.analyzer]_vars

\* An inspection raised, another strategy was set, and its inspection ran
C14_Witness ==
    /\ prev.op = "DataInspector.execute_inspection"
    /\ prev.result = "ValueError"
    /\ prev.receiver.cls = "DataRandomRowsStrategy"
    /\ out.op = "DataInspector.execute_inspection"
    /\ out.receiver.cls = "DataShapeStrategy"
    /\ out.result = "None"
    /\ inspector = out.receiver

-----------------------------------------------------------------------------
(* The columns with too many nulls *)

\* The columns with more than 70 nulls in 100 cells: 100 * k > 70 * R
OverThreshold(d) ==
    {c \in ColumnSet(d) : 100 * NullCount(d.data[c]) > 70 * NumRows(d)}

\* C15: ColumnWithToManyNulls reports the columns whose null percentage is
\* over 70 and no other, a column at 70 not among them, and
\* identify_missing_values prints and visualize_missing_values draws the
\* same columns of the same table.
C15_StrictlyOverSeventy ==
    /\ out.calls = <<"ColumnWithToManyNulls.identify_missing_values">> =>
          Labels(out.printed[2]) = OverThreshold(df)
    /\ (/\ out.calls = <<"ColumnWithToManyNulls.visualize_missing_values">>
        /\ out.result = "None") =>
          Labels(out.figures[1].data) = OverThreshold(df)
    /\ AnalyzeDone("ColumnWithToManyNulls") =>
          /\ Labels(out.printed[2]) = OverThreshold(df)
          /\ Labels(out.figures[1].data) = Labels(out.printed[2])

\* Seven nulls in ten rows: the column is not reported
C15_Witness ==
    /\ out.calls = <<"ColumnWithToManyNulls.identify_missing_values">>
    /\ NumRows(df) = 10
    /\ NullCount(df.data["a"]) = 7
    /\ out.printed[2] = <<>>

\* Eight nulls in ten rows: the column is reported and drawn
C15_WitnessOver ==
    /\ AnalyzeDone("ColumnWithToManyNulls")
    /\ NumRows(df) = 10
    /\ NullCount(df.data["a"]) = 8
    /\ Labels(out.figures[1].data) = {"a"}

====
